---- MODULE Spec2Model ----
(***************************************************************************)
(* Tunnel negotiation core of the Arkham node (package node): the peer     *)
(* registry kept in the libp2p peerstore, the latency prober, the relay    *)
(* stream handler, the connect/disconnect API handlers and the WireGuard   *)
(* interface configurator.                                                 *)
(*                                                                         *)
(* One node (Self) runs the API handlers; the nodes of Peers run the relay *)
(* stream handler.  A handler is one action up to each point where the     *)
(* code blocks on the network (a Decode of a stream that has no data yet). *)
(* The API request and the streams of its negotiation live in one slot     *)
(* that the next request reuses, so the model follows any number of        *)
(* requests made one after the other.                                      *)
(*                                                                         *)
(* The specifications share the actions:                                   *)
(*   SpecProbe      discovery and the latency prober;                      *)
(*   SpecPing       the prober against peers that run pingHandler;         *)
(*   SpecDiscovery  mDNS callbacks, the DHT loop and the probes;           *)
(*   SpecSpawn      discovery with the probe goroutines it starts;         *)
(*   SpecSelect     discovery, the prober and connectHandler up to the     *)
(*                  send of the request: path selection;                   *)
(*   SpecSnapshot   path selection read by read, while probes write;       *)
(*   SpecTies       path selection over registries with equal latencies;   *)
(*   SpecRelay      the relay handlers under arbitrary inbound streams;    *)
(*   Spec           negotiation and the interface: connect, the relay      *)
(*                  chain, configure and disconnect;                       *)
(*   SpecDeadline   the same with peers that stall and context deadlines;  *)
(*   SpecConcurrent API requests that run their OS commands side by side;  *)
(*   SpecNode       the life cycle of a P2PNode (node/node.go).            *)
(***************************************************************************)
EXTENDS Integers, Sequences, FiniteSets, TLC

\* ------------------------------------------------------------------ bounds

NumPeers == 3
\* the query cycles of the DHT loop that are told apart (the count saturates)
MaxCycles == 2
\* the API requests that run their OS commands at the same time
MaxRuns == 2

\* ------------------------------------------------------- program constants

\* int64(9999), the latency measureLatency stores for an unreachable peer
UnreachableLatency == 9999
HttpOK == 200
HttpInternalServerError == 500
HttpServiceUnavailable == 503

Self == 0
Peers == 1..NumPeers
\* the elapsed milliseconds a probe can measure (no timeout bounds the probe)
Elapsed == {5, 15, 12000}
\* ConnectRequest.Hops as the API caller may send it
HopInputs == (0 - 1)..(NumPeers + 1)
WireGuardInterface == "wg0"

VARIABLES
  addrs,      \* peers with an address entry in the peerstore
  latency,    \* peerstore metadata "latency": a function on the peers that have one
  conn,       \* the connectHandler invocation (the latest API connect request)
  streams,    \* negotiation streams: id -> stream and the state of its streamHandler
  iface,      \* the OS interface wg0
  lastDisc,   \* the latest disconnectHandler invocation and its response
  probeLog,   \* the latest measureLatency run: what happened and what it stored
  dht,        \* the goroutine of setupDiscovery that queries the DHT in a loop
  ctxDone,    \* the handlers whose context.WithTimeout context is done
  osRuns,     \* API requests running their OS commands side by side
  probes,     \* the measureLatency goroutines in flight
  sel,        \* a connectHandler in its path selection, read by read
  p2p         \* the P2PNode: its fields and its discovery goroutines

vars ==
  <<addrs, latency, conn, streams, iface, lastDisc, probeLog, dht, ctxDone, osRuns,
    probes, sel, p2p>>

\* =================================================================== registry

\* the DHT loop before setupDiscovery has started it
NoDht == [pc |-> "off", chan |-> "none", err |-> FALSE, cycles |-> 0, left |-> {}]

\* no measureLatency goroutine in flight.  run: the peers a probe is under way
\* for; stalled: the peers a probe of which is blocked in its Read for good
NoProbes == [run |-> {}, stalled |-> {}]

\* no path selection under way.  pc: idle, filter, sort, done; todo: the peers of
\* the Peers() slice the filter loop has not come to yet; seen: every state the
\* registry has been in since the request began; at: the registry at the sort
NoSel ==
  [pc |-> "idle", hops |-> 0, todo |-> {}, avail |-> {}, path |-> <<>>, code |-> 0,
   seen |-> {}, at |-> <<>>]

\* the P2PNode as NewP2PNode returns it.  host, mdns, dht: the fields, each the
\* number of the Start call that made the object (0: nil); open: the objects that
\* are open or running; loops: the discovery goroutines by the call that started
\* them; locked: a Start holds n.mu and has not yet returned; made: the calls of
\* libp2p.New so far; ok: the latest Start that returned nil; last: the latest
\* call that returned
NoNode ==
  [IsRunning |-> FALSE, locked |-> FALSE, made |-> 0, host |-> 0, mdns |-> 0,
   dht |-> 0, open |-> {}, loops |-> <<>>, ok |-> 0,
   last |-> [op |-> "none", ret |-> "none", made |-> 0, noop |-> FALSE]]

\* h.Peerstore().Peers(): every peer the store holds anything for, the host included
PeerstorePeers == addrs \cup DOMAIN latency \cup {Self}

\* h.Peerstore().Put(p, "latency", v)
PutLatency(lat, p, v) ==
  [q \in DOMAIN lat \cup {p} |-> IF q = p THEN v ELSE lat[q]]

\* discoveryNotifee.HandlePeerFound: the host itself is ignored; any other peer gets
\* its addresses added and a probe goroutine
HandlePeerFound(pi) ==
  /\ addrs' = IF pi = Self THEN addrs ELSE addrs \cup {pi}
  /\ UNCHANGED <<latency, conn, streams, iface, lastDisc, probeLog, dht, ctxDone, osRuns,
                 probes, sel, p2p>>

\* the DHT loop of setupDiscovery: a found peer is added (and probed) only when the
\* peerstore has no address for it yet
DhtPeerFound(pi) ==
  /\ addrs' = IF pi # Self /\ pi \notin addrs THEN addrs \cup {pi} ELSE addrs
  /\ UNCHANGED <<latency, conn, streams, iface, lastDisc, probeLog, dht, ctxDone, osRuns,
                 probes, sel, p2p>>

\* setupDiscovery after mDNS has started: kaddht.New and Bootstrap; on an error of
\* either it returns and the loop never starts, otherwise it starts the loop
BootOutcomes == {"ok", "newErr", "bootstrapErr"}
SetupDiscovery(boot) ==
  /\ dht.pc = "off"
  /\ dht' = [dht EXCEPT !.pc = IF boot = "ok" THEN "query" ELSE "exited"]
  /\ UNCHANGED <<addrs, latency, conn, streams, iface, lastDisc, probeLog,
                 ctxDone, osRuns, probes, sel, p2p>>

\* "peerChan, _ := routingDiscovery.FindPeers(ctx, ProtocolDHT)": the error is
\* dropped; with an error FindPeers returns a nil channel
FindOutcomes == {"ok", "err"}
DhtFindPeers(outcome) ==
  /\ dht.pc = "query"
  /\ dht' = [dht EXCEPT !.pc = "range",
                        !.err = (outcome = "err"),
                        !.chan = IF outcome = "err" THEN "nil" ELSE "open",
                        !.cycles = IF dht.cycles < MaxCycles
                                   THEN dht.cycles + 1 ELSE MaxCycles]
  /\ UNCHANGED <<addrs, latency, conn, streams, iface, lastDisc, probeLog,
                 ctxDone, osRuns, probes, sel, p2p>>

\* "for p := range peerChan": a receive from an open channel yields a peer; a
\* receive from a nil channel blocks for ever
DhtRangeRecv(pi) ==
  /\ dht.pc = "range"
  /\ dht.chan = "open"
  /\ DhtPeerFound(pi)

\* the query is over and closes the channel: the range loop ends and the
\* goroutine goes into time.Sleep(1 * time.Minute)
DhtChanClosed ==
  /\ dht.pc = "range"
  /\ dht.chan = "open"
  /\ dht' = [dht EXCEPT !.pc = "sleep", !.chan = "closed"]
  /\ UNCHANGED <<addrs, latency, conn, streams, iface, lastDisc, probeLog,
                 ctxDone, osRuns, probes, sel, p2p>>

\* the sleep is over: the for loop starts its next cycle
DhtSleepDone ==
  /\ dht.pc = "sleep"
  /\ dht' = [dht EXCEPT !.pc = "query", !.chan = "none", !.err = FALSE]
  /\ UNCHANGED <<addrs, latency, conn, streams, iface, lastDisc, probeLog,
                 ctxDone, osRuns, probes, sel, p2p>>

\* ===================================================================== prober

ProbeOutcomes == {"openFail", "writeFail", "readFail", "echoed"}

\* A broken prober that records whatever time has elapsed, also on a failed open
ProbeValueElapsedAlways(outcome, elapsed) == elapsed

\* The value measureLatency stores: the sentinel when NewStream or Write fails;
\* the elapsed time otherwise (the error of Read is ignored)
ProbeValue(outcome, elapsed) ==
  IF outcome = "openFail" THEN UnreachableLatency
  ELSE IF outcome = "writeFail" THEN UnreachableLatency
  ELSE elapsed

\* measureLatency(ctx, h, p), run by a goroutine that discovery started for p
MeasureLatency(p, outcome, elapsed) ==
  /\ p \in addrs
  /\ latency' = PutLatency(latency, p, ProbeValue(outcome, elapsed))

NoProbe == [peer |-> Self, outcome |-> "none", elapsed |-> 0, stored |-> 0, puts |-> 0]

\* the same run, with what it did kept for inspection
MeasureLatencyLogged(p, outcome, elapsed) ==
  /\ MeasureLatency(p, outcome, elapsed)
  /\ probeLog' = [peer |-> p, outcome |-> outcome, elapsed |-> elapsed,
                  stored |-> latency'[p], puts |-> 1]
  /\ UNCHANGED <<addrs, conn, streams, iface, lastDisc, dht, ctxDone, osRuns,
                 probes, sel, p2p>>

MeasureLatencyStep(p, outcome, elapsed) ==
  /\ MeasureLatency(p, outcome, elapsed)
  /\ UNCHANGED <<addrs, conn, streams, iface, lastDisc, probeLog, dht, ctxDone, osRuns,
                 probes, sel, p2p>>

\* pingHandler(s), the responder of ProtocolPing: it reads up to one byte into buf
\* and returns; the deferred s.Close() ends the stream.  Nothing is written.
PingHandler(received) ==
  [read |-> IF received = <<>> THEN <<>> ELSE <<Head(received)>>,
   wrote |-> <<>>,
   st |-> "closed"]

\* what the Read of measureLatency gets from a responder: the bytes it wrote
\* before it closed, one at most into the one-byte buffer
ProbeRead(reply) ==
  IF reply.wrote = <<>> THEN [n |-> 0, err |-> "EOF"]
  ELSE [n |-> 1, err |-> "nil"]

\* how a probe goes by the state of the peer: no stream to a peer that cannot be
\* reached; a peer that is up runs pingHandler on the marker byte
Reach == {"unreachable", "live"}
ProbeOutcome(reach) ==
  IF reach = "unreachable" THEN "openFail"
  ELSE IF ProbeRead(PingHandler(<<"p">>)).err = "nil" THEN "echoed"
  ELSE "readFail"

\* measureLatency against a peer in that state, with what the Read returned kept
\* for inspection
PingProbe(p, reach, elapsed) ==
  /\ MeasureLatency(p, ProbeOutcome(reach), elapsed)
  /\ probeLog' = [peer |-> p, outcome |-> ProbeOutcome(reach), elapsed |-> elapsed,
                  stored |-> latency'[p], puts |-> 1, reach |-> reach,
                  n |-> IF reach = "live" THEN ProbeRead(PingHandler(<<"p">>)).n
                        ELSE 0]
  /\ UNCHANGED <<addrs, conn, streams, iface, lastDisc, dht, ctxDone, osRuns,
                 probes, sel, p2p>>

\* =========================================================== probe goroutines

\* A discovery that starts no goroutine
SpawnedNever(pr, p) == pr

\* "go measureLatency(context.Background(), h, p)": a probe of p is under way
Spawned(pr, p) == [pr EXCEPT !.run = @ \cup {p}]

\* discoveryNotifee.HandlePeerFound with the goroutine it starts
HandlePeerFoundGo(pi) ==
  /\ addrs' = IF pi = Self THEN addrs ELSE addrs \cup {pi}
  /\ probes' = IF pi = Self THEN probes ELSE Spawned(probes, pi)
  /\ UNCHANGED <<latency, conn, streams, iface, lastDisc, probeLog, dht, ctxDone,
                 osRuns, sel, p2p>>

\* FindPeers of a cycle in which the query works and returns every node that
\* advertises ProtocolDHT, this host among them
DhtQueryAll ==
  /\ dht.pc = "query"
  /\ dht' = [dht EXCEPT !.pc = "range", !.err = FALSE, !.chan = "open",
                        !.left = Peers \cup {Self},
                        !.cycles = IF dht.cycles < MaxCycles
                                   THEN dht.cycles + 1 ELSE MaxCycles]
  /\ UNCHANGED <<addrs, latency, conn, streams, iface, lastDisc, probeLog,
                 ctxDone, osRuns, probes, sel, p2p>>

\* one turn of "for p := range peerChan" with the goroutine it starts: the peer
\* is added and probed only when the peerstore has no address for it
DhtDeliver(pi) ==
  /\ dht.pc = "range"
  /\ dht.chan = "open"
  /\ pi \in dht.left
  /\ dht' = [dht EXCEPT !.left = @ \ {pi}]
  /\ IF pi # Self /\ pi \notin addrs
     THEN /\ addrs' = addrs \cup {pi}
          /\ probes' = Spawned(probes, pi)
     ELSE UNCHANGED <<addrs, probes>>
  /\ UNCHANGED <<latency, conn, streams, iface, lastDisc, probeLog, ctxDone,
                 osRuns, sel, p2p>>

\* every result has been received: the channel is closed and the loop sleeps
DhtDrained ==
  /\ dht.pc = "range"
  /\ dht.chan = "open"
  /\ dht.left = {}
  /\ dht' = [dht EXCEPT !.pc = "sleep", !.chan = "closed"]
  /\ UNCHANGED <<addrs, latency, conn, streams, iface, lastDisc, probeLog,
                 ctxDone, osRuns, probes, sel, p2p>>

\* a probe goroutine runs to its end: NewStream, Write and Read return and one of
\* the three Put calls stores a value
ProbeReturns(p, outcome, elapsed) ==
  /\ p \in probes.run
  /\ MeasureLatency(p, outcome, elapsed)
  /\ probes' = [probes EXCEPT !.run = @ \ {p}]
  /\ UNCHANGED <<addrs, conn, streams, iface, lastDisc, probeLog, dht, ctxDone,
                 osRuns, sel, p2p>>

\* the responder neither answers nor closes: s.Read(buf) has no deadline (the
\* context is context.Background()) and the goroutine stays in it
ProbeStalls(p) ==
  /\ p \in probes.run
  /\ probes' = [probes EXCEPT !.run = @ \ {p}, !.stalled = @ \cup {p}]
  /\ UNCHANGED <<addrs, latency, conn, streams, iface, lastDisc, probeLog, dht,
                 ctxDone, osRuns, sel, p2p>>

\* ============================================================ keys and names

\* wgtypes.GeneratePrivateKey: a key no live object holds.  Keys are numbered;
\* the fresh one is the least number not in use.
UsedKeys ==
  {conn.privKey, conn.resp.b64, iface.privKey}
    \cup {pk.PublicKey.pub : pk \in iface.peers}
    \cup {streams[s].genKey : s \in DOMAIN streams}

GeneratePrivateKey(used) ==
  CHOOSE n \in 1..(Cardinality(used) + 1) :
    n \notin used /\ \A m \in 1..(n - 1) : m \in used

\* Key.PublicKey()
PublicKey(priv) == [pub |-> priv]
\* Key.String(): the base64 text of a key
KeyString(k) == [b64 |-> k.pub]
\* wgtypes.ParseKey: the empty text (b64 = 0) is no key
ParseKey(s) ==
  IF s.b64 > 0 THEN [err |-> FALSE, key |-> [pub |-> s.b64]]
  ELSE [err |-> TRUE, key |-> [pub |-> 0]]

\* peer.ID.String() and peer.Decode
PeerString(p) == [b58 |-> p]
PeerDecode(s) ==
  IF s.b58 \in Peers \cup {Self} THEN [err |-> FALSE, id |-> s.b58]
  ELSE [err |-> TRUE, id |-> Self]

PeerStrings(ps) == [i \in 1..Len(ps) |-> PeerString(ps[i])]

\* ================================================================ wire format

\* json.Encoder.Encode of a VPNRequest: "hops" is omitted when empty (omitempty)
EncodeVPNRequest(req) ==
  [wellformed |-> TRUE,
   obj |-> IF Len(req.Hops) = 0
           THEN [seeker_public_key |-> req.SeekerPublicKey]
           ELSE [seeker_public_key |-> req.SeekerPublicKey, hops |-> req.Hops]]

\* json.Decoder.Decode into a VPNRequest: an absent field keeps its zero value
DecodeVPNRequest(bytes) ==
  IF ~bytes.wellformed
  THEN [err |-> TRUE, req |-> [SeekerPublicKey |-> [b64 |-> 0], Hops |-> <<>>]]
  ELSE [err |-> FALSE,
        req |-> [SeekerPublicKey |->
                   IF "seeker_public_key" \in DOMAIN bytes.obj
                   THEN bytes.obj.seeker_public_key ELSE [b64 |-> 0],
                 Hops |-> IF "hops" \in DOMAIN bytes.obj
                          THEN bytes.obj.hops ELSE <<>>]]

EncodeVPNResponse(resp) ==
  [wellformed |-> TRUE, obj |-> [warden_public_key |-> resp.WardenPublicKey]]

DecodeVPNResponse(bytes) ==
  IF ~bytes.wellformed
  THEN [err |-> TRUE, resp |-> [WardenPublicKey |-> [b64 |-> 0]]]
  ELSE [err |-> FALSE,
        resp |-> [WardenPublicKey |->
                    IF "warden_public_key" \in DOMAIN bytes.obj
                    THEN bytes.obj.warden_public_key ELSE [b64 |-> 0]]]

\* what a peer that is not this program may write on a negotiation stream:
\* bytes that are no JSON, and a request whose next hop is no peer id
Garbage == [wellformed |-> FALSE, obj |-> [junk |-> 0]]
BadHopRequest ==
  EncodeVPNRequest([SeekerPublicKey |-> [b64 |-> 0], Hops |-> <<[b58 |-> 0 - 1]>>])
\* ... and any request another seeker may send: a key and up to two hops
ExtHopLists ==
  {<<>>} \cup {<<PeerString(p)>> : p \in Peers}
         \cup {<<PeerString(p), PeerString(q)>> : p, q \in Peers}
ExtRequests ==
  {Garbage, BadHopRequest}
    \cup {EncodeVPNRequest([SeekerPublicKey |-> [b64 |-> 1], Hops |-> hs]) :
            hs \in ExtHopLists}

\* ==================================================================== streams

\* a negotiation is a chain of streams: stream 1 from its opener to the entry
\* peer, stream i + 1 opened by the handler of stream i
ChainIds == 1..NumPeers

\* a stream as h.NewStream returns it, with the streamHandler the remote host
\* starts for it (hpc: where that handler is; st: the end of that handler; ost:
\* the end of the opener, open until the opener calls Close or Reset on it)
NewStream(origin, dst) ==
  [origin |-> origin, dst |-> dst, reqBuf |-> <<>>, respBuf |-> <<>>,
   st |-> "open", hpc |-> "decode", hops |-> <<>>, down |-> 0, genKey |-> 0,
   result |-> "running", ost |-> "open"]

\* Stream.Close by the handler (the deferred s.Close())
CloseStream(st) == IF st = "open" THEN "closed" ELSE st

\* a Decode on the stream's response side returns: there is data, or the other
\* side closed or reset the stream, or the connection is gone
ResponseReadable(s) == Len(s.respBuf) > 0 \/ s.st # "open"

\* a Write on the stream towards its opener succeeds
Writable(s, fault) == fault # "encode" /\ s.st = "open"

With(ss, id, rec) == [s \in DOMAIN ss \cup {id} |-> IF s = id THEN rec ELSE ss[s]]

\* ========================================================= tunnel interface

NoIface ==
  [exists |-> FALSE, privKey |-> 0, peers |-> {}, up |-> FALSE, dns |-> "none"]

\* exec "ip link del wg0": fails when there is no such interface.  (An interface
\* that exists was added by this process, which therefore may delete it.)
IpLinkDel(i) ==
  IF i.exists THEN [iface |-> NoIface, err |-> FALSE]
  ELSE [iface |-> i, err |-> TRUE]

\* exec "ip link add wg0 type wireguard"
IpLinkAdd(i, fault) ==
  IF fault = "add" \/ i.exists THEN [iface |-> i, err |-> TRUE]
  ELSE [iface |-> [NoIface EXCEPT !.exists = TRUE], err |-> FALSE]

\* conn.RemoteMultiaddr() of the connection to peer p over a transport
Transports == {"quic", "tcp"}
RemoteMultiaddr(p, transport) ==
  [host |-> p,
   protos |-> IF transport = "quic" THEN <<"ip4", "udp", "quic-v1">>
              ELSE <<"ip4", "tcp">>]

\* strings.Split(addr, "/quic-v1")[0]: what precedes the first quic-v1 component
SplitQuicV1(ma) ==
  LET at == {i \in 1..Len(ma.protos) : ma.protos[i] = "quic-v1"}
      cut == IF at = {} THEN Len(ma.protos)
             ELSE (CHOOSE i \in at : \A j \in at : i <= j) - 1
  IN [host |-> ma.host, protos |-> SubSeq(ma.protos, 1, cut)]

\* A conversion that loses the host of the address
ToNetAddrUnspecified(ma) ==
  IF Len(ma.protos) = 2 /\ ma.protos[1] = "ip4" /\ ma.protos[2] \in {"udp", "tcp"}
  THEN [err |-> FALSE, net |-> ma.protos[2], host |-> Self]
  ELSE [err |-> TRUE, net |-> "none", host |-> Self]

\* manet.ToNetAddr: an ip/udp or ip/tcp address becomes a net.Addr of that kind
ToNetAddr(ma) ==
  IF Len(ma.protos) = 2 /\ ma.protos[1] = "ip4" /\ ma.protos[2] \in {"udp", "tcp"}
  THEN [err |-> FALSE, net |-> ma.protos[2], host |-> ma.host]
  ELSE [err |-> TRUE, net |-> "none", host |-> ma.host]

AllIPv4 == "0.0.0.0/0"

ConfigFaults == {"none", "add", "wgctrl", "configure", "up", "dns", "domain"}

\* A configurator that gives up when a resolver command fails
ConfigureDNSFatal(i, fault) ==
  IF fault = "dns" THEN [iface |-> i, end |-> "dnsErr", cmds |-> 5]
  ELSE IF fault = "domain"
    THEN [iface |-> [i EXCEPT !.dns = "servers"], end |-> "dnsErr", cmds |-> 6]
  ELSE [iface |-> [i EXCEPT !.dns = "routed"], end |-> "ok", cmds |-> 6]

\* the end of configureSeekerInterface, on the interface that is up: "resolvectl
\* dns" and, if that worked, "resolvectl domain"; an error of either is logged
\* and the function returns nil
ConfigureDNS(i, fault) ==
  IF fault = "dns" THEN [iface |-> i, end |-> "ok", cmds |-> 5]
  ELSE IF fault = "domain"
    THEN [iface |-> [i EXCEPT !.dns = "servers"], end |-> "ok", cmds |-> 6]
  ELSE [iface |-> [i EXCEPT !.dns = "routed"], end |-> "ok", cmds |-> 6]

\* configureSeekerInterface(privKey, wardenPubKeyStr, conn): the interface it leaves,
\* how it ended (ok, an error, or the panic of the failed type assertion) and the
\* number of OS commands it ran
ConfigureSeekerInterface(i, privKey, wardenPubKeyStr, maddr, fault) ==
  LET deleted == IpLinkDel(i).iface
      added == IpLinkAdd(deleted, fault)
      wardenPubKey == ParseKey(wardenPubKeyStr)
      remoteAddr == ToNetAddr(SplitQuicV1(maddr))
      peer == [PublicKey |-> wardenPubKey.key, AllowedIPs |-> AllIPv4,
               Endpoint |-> [net |-> remoteAddr.net, host |-> remoteAddr.host]]
      configured == [added.iface EXCEPT !.privKey = privKey, !.peers = {peer}]
      isUp == [configured EXCEPT !.up = TRUE]
  IN IF added.err
       THEN [iface |-> added.iface, end |-> "addErr", cmds |-> 2]
     ELSE IF fault = "wgctrl"
       THEN [iface |-> added.iface, end |-> "wgctrlErr", cmds |-> 2]
     ELSE IF wardenPubKey.err
       THEN [iface |-> added.iface, end |-> "parseKeyErr", cmds |-> 2]
     ELSE IF remoteAddr.err
       THEN [iface |-> added.iface, end |-> "addrErr", cmds |-> 2]
     ELSE IF remoteAddr.net # "udp"
       THEN [iface |-> added.iface, end |-> "panic", cmds |-> 2]
     ELSE IF fault = "configure"
       THEN [iface |-> added.iface, end |-> "configureErr", cmds |-> 3]
     ELSE IF fault = "up"
       THEN [iface |-> configured, end |-> "upErr", cmds |-> 4]
     ELSE ConfigureDNS(isUp, fault)

\* A Decode whose error is dropped: the response keeps its zero value
ReadResponseIgnoringError(s) ==
  IF Len(s.respBuf) > 0 THEN DecodeVPNResponse(s.respBuf[1])
  ELSE [err |-> FALSE, resp |-> [WardenPublicKey |-> [b64 |-> 0]]]

\* A Decode that does not wait for the bytes: it returns at once, with no error
\* and the zero value
ReadResponseUnread(s) == [err |-> FALSE, resp |-> [WardenPublicKey |-> [b64 |-> 0]]]

\* json.NewDecoder(stream).Decode(&resp) on a stream's response side: the bytes
\* that arrived, or the error of a stream that ended without any
ReadResponse(s) ==
  IF Len(s.respBuf) > 0 THEN DecodeVPNResponse(s.respBuf[1])
  ELSE DecodeVPNResponse(Garbage)

\* ============================================================= relay handler

RelayFaults == {"none", "newstream", "encode", "keygen"}

\* A relay that answers a request it could not decode, and closes
AbortStreamWithReply(s) ==
  [s EXCEPT !.hpc = "done", !.result = "decodeErr", !.st = CloseStream(s.st),
            !.respBuf = <<Garbage>>]

\* the decode failure: s.Reset() and return, before the deferred Close is set up
AbortStream(s) ==
  [s EXCEPT !.hpc = "done", !.result = "decodeErr", !.st = "reset"]

\* A relay that builds forwardReq without its Hops
RemainingHopsForgotten(hops) == <<>>

\* remainingHops := req.Hops[1:]
RemainingHops(hops) == Tail(hops)

\* A relay that answers with a VPNResponse of its own, never filled in
PassedBackEmpty(resp) == [WardenPublicKey |-> [b64 |-> 0]]

\* the response a relay encodes upstream: the one it decoded from the next hop
PassedBack(resp) == resp

\* A handler that reports its failure on the inbound stream before it returns
ReturnedWithNotice(s, result) ==
  [s EXCEPT !.hpc = "done", !.result = result, !.st = CloseStream(s.st),
            !.respBuf = IF result = "ok" THEN s.respBuf ELSE <<Garbage>>]

\* the handler returns: the deferred s.Close() runs
Returned(s, result) ==
  [s EXCEPT !.hpc = "done", !.result = result, !.st = CloseStream(s.st)]

\* Warden.streamHandler up to the point where it waits for the next hop: decode
\* the request; forward it (hops left) or answer it (no hops left)
StreamHandler(id, fault) ==
  /\ id \in DOMAIN streams
  /\ streams[id].hpc = "decode"
  /\ Len(streams[id].reqBuf) > 0 \/ streams[id].st # "open"
  /\ LET s == streams[id]
         dec == IF Len(s.reqBuf) > 0 THEN DecodeVPNRequest(s.reqBuf[1])
                ELSE DecodeVPNRequest(Garbage)
         req == dec.req
         got == [s EXCEPT !.hops = req.Hops]
     IN IF dec.err
          THEN streams' = With(streams, id, AbortStream(s))
        ELSE IF Len(req.Hops) > 0
          THEN LET nextHop == PeerDecode(req.Hops[1])
                   remainingHops == RemainingHops(req.Hops)
                   forwardReq == [SeekerPublicKey |-> req.SeekerPublicKey,
                                  Hops |-> remainingHops]
                   nextStream == NewStream(s.origin, nextHop.id)
               IN IF nextHop.err
                    THEN streams' = With(streams, id, Returned(got, "badHop"))
                  \* NewStream fails; a host never dials itself
                  ELSE IF fault = "newstream" \/ nextHop.id = s.dst
                    THEN streams' = With(streams, id, Returned(got, "dialErr"))
                  ELSE IF fault = "encode"
                    THEN streams' = With(With(streams, id + 1, nextStream), id,
                           Returned([got EXCEPT !.down = id + 1], "sendErr"))
                  ELSE streams' = With(
                         With(streams, id + 1,
                           [nextStream EXCEPT
                              !.reqBuf = <<EncodeVPNRequest(forwardReq)>>]),
                         id, [got EXCEPT !.hpc = "await", !.down = id + 1])
        ELSE LET wardenPrivKey == GeneratePrivateKey(UsedKeys)
                 resp == [WardenPublicKey |->
                            KeyString(PublicKey(wardenPrivKey))]
             IN IF fault = "keygen"
                  THEN streams' = With(streams, id, Returned(got, "keyErr"))
                ELSE IF ~Writable(s, fault)
                  THEN streams' = With(streams, id,
                         Returned([got EXCEPT !.genKey = wardenPrivKey], "replyErr"))
                ELSE streams' = With(streams, id,
                       Returned([got EXCEPT !.genKey = wardenPrivKey,
                                   !.respBuf = <<EncodeVPNResponse(resp)>>], "ok"))
  /\ UNCHANGED <<addrs, latency, conn, iface, lastDisc, probeLog, dht, ctxDone, osRuns,
                 probes, sel, p2p>>

\* Warden.streamHandler from the Decode of the next hop's response on: pass the
\* response back on the inbound stream, or return without writing
StreamHandlerForwardBack(id, fault) ==
  /\ id \in DOMAIN streams
  /\ streams[id].hpc = "await"
  /\ ResponseReadable(streams[streams[id].down])
  /\ LET s == streams[id]
         nextStream == streams[s.down]
         dec == ReadResponse(nextStream)
     IN IF dec.err
          THEN streams' = With(streams, id, Returned(s, "downErr"))
        ELSE IF ~Writable(s, fault)
          THEN streams' = With(streams, id, Returned(s, "replyErr"))
        ELSE streams' = With(streams, id,
               Returned([s EXCEPT !.respBuf =
                                   <<EncodeVPNResponse(PassedBack(dec.resp))>>],
                        "ok"))
  /\ UNCHANGED <<addrs, latency, conn, iface, lastDisc, probeLog, dht, ctxDone, osRuns,
                 probes, sel, p2p>>

\* what the node that serves stream s holds of the negotiation: the Warden, whose
\* one field is the host, and, for as long as streamHandler runs, its locals; the
\* handler stores neither req nor wardenPrivKey anywhere before it returns
WardenHolds(s) ==
  IF s.hpc = "done" THEN [host |-> s.dst]
  ELSE [host |-> s.dst, wardenPrivKey |-> s.genKey, reqHops |-> s.hops]

\* a peer that is not this program opens a negotiation stream to a node and
\* writes bytes on it
ExternalStream(dst, bytes) ==
  /\ streams' = With(<<>>, 1, [NewStream("ext", dst) EXCEPT !.reqBuf = <<bytes>>])
  /\ ctxDone' = {}
  /\ UNCHANGED <<addrs, latency, conn, iface, lastDisc, probeLog, dht, osRuns,
                 probes, sel, p2p>>

\* the connection under a stream is lost while its handler still waits for the
\* request (the opener failed to send it)
ConnectionLost(id) ==
  /\ id \in DOMAIN streams
  /\ streams[id].st = "open"
  /\ streams[id].hpc = "decode"
  /\ Len(streams[id].reqBuf) = 0
  /\ streams' = With(streams, id, [streams[id] EXCEPT !.st = "dropped"])
  /\ UNCHANGED <<addrs, latency, conn, iface, lastDisc, probeLog, dht, ctxDone, osRuns,
                 probes, sel, p2p>>

\* a peer accepts the stream, takes the request and never serves it: neither a
\* response nor a close or reset ever comes back
PeerStalls(id) ==
  /\ id \in DOMAIN streams
  /\ streams[id].st = "open"
  /\ streams[id].hpc = "decode"
  /\ Len(streams[id].reqBuf) > 0
  /\ streams' = With(streams, id, [streams[id] EXCEPT !.hpc = "stalled"])
  /\ UNCHANGED <<addrs, latency, conn, iface, lastDisc, probeLog, dht, ctxDone, osRuns,
                 probes, sel, p2p>>

\* the handlers that hold a context with a deadline: 0 is connectHandler (60 s),
\* i is the streamHandler of stream i in its forward branch (30 s)
CtxOwners == {0} \cup ChainIds

\* the handler of this owner is blocked in the Decode of a response
AwaitsResponse(owner) ==
  IF owner = 0 THEN conn.pc = "await"
  ELSE owner \in DOMAIN streams /\ streams[owner].hpc = "await"

\* the deadline of a handler's context passes while the handler is blocked in
\* Decode.  The context was given to NewStream alone, which has returned; the
\* stream has no deadline set, so the pending read goes on
ContextDeadline(owner) ==
  /\ AwaitsResponse(owner)
  /\ owner \notin ctxDone
  /\ ctxDone' = ctxDone \cup {owner}
  /\ UNCHANGED <<addrs, latency, conn, streams, iface, lastDisc, probeLog, dht, osRuns,
                 probes, sel, p2p>>

\* ============================================================== API handlers

NoOut ==
  [WardenPeerID |-> [b58 |-> Self], SeekerPublicKey |-> [b64 |-> 0],
   WardenPublicKey |-> [b64 |-> 0], Path |-> <<>>]

\* no connect request yet.  pc: idle, await (blocked in the Decode of the
\* response), done; code 0: no response written
ConnIdle ==
  [pc |-> "idle", hops |-> 0, path |-> <<>>, privKey |-> 0, transport |-> "none",
   negotiated |-> FALSE, resp |-> [b64 |-> 0], code |-> 0, status |-> "none",
   msg |-> "none", osCmds |-> 0, out |-> NoOut]

\* writeError(w, code, message), after which the handler returns
WriteError(c, code, message) ==
  [c EXCEPT !.pc = "done", !.code = code, !.status = "error", !.msg = message]

\* connectReq.Hops after "if connectReq.Hops <= 0 { connectReq.Hops = 1 }"
CoerceHops(h) == IF h <= 0 THEN 1 ELSE h

\* A filter that compares with > and so lets the sentinel itself through
AvailablePeersCountsSentinel(lat) ==
  {p \in PeerstorePeers :
     /\ p # Self
     /\ p \in DOMAIN lat
     /\ ~(lat[p] > UnreachableLatency)}

\* A filter that takes every peer that has a latency at all
AvailablePeersUnfiltered(lat) ==
  {p \in PeerstorePeers : p # Self /\ p \in DOMAIN lat}

\* the filter loop of connectHandler over h.Peerstore().Peers()
AvailablePeers(lat) ==
  {p \in PeerstorePeers :
     /\ p # Self
     /\ p \in DOMAIN lat
     /\ ~(lat[p] >= UnreachableLatency)}

\* A handler that skips the sort: the peers stay in the order of the peerstore
SortSliceSkipped(S, lat) ==
  {f \in [1..Cardinality(S) -> S] :
     \A i, j \in 1..Cardinality(S) : i # j => f[i] # f[j]}

\* sort.Slice(availablePeers, less) with less(i, j) == latency i < latency j: the
\* slice can come out in any order in which no element is less than one before it
SortSlice(S, lat) ==
  {f \in [1..Cardinality(S) -> S] :
     /\ \A i, j \in 1..Cardinality(S) : i # j => f[i] # f[j]
     /\ \A i, j \in 1..Cardinality(S) : i < j => ~(lat[f[j]] < lat[f[i]])}

ConnectFaults == {"none", "keygen", "newstream", "encode"}

\* connectHandler up to the point where it waits for the entry peer's response
ConnectHandler(hopsIn, sorted, fault, transport) ==
  /\ conn.pc \in {"idle", "done"}
  /\ LET hops == CoerceHops(hopsIn)
         availablePeers == AvailablePeers(latency)
         kept == <<>>
         c0 == [ConnIdle EXCEPT !.hops = hops]
     IN IF Cardinality(availablePeers) < hops
          THEN /\ conn' = WriteError(c0, HttpServiceUnavailable, "not enough peers")
               /\ streams' = kept
        ELSE
          /\ sorted \in SortSlice(availablePeers, latency)
          /\ LET path == SubSeq(sorted, 1, hops)
                 wardenPeer == path[1]
                 seekerPrivKey ==
                   GeneratePrivateKey(
                     {iface.privKey} \cup {pk.PublicKey.pub : pk \in iface.peers})
                 hopIDs == PeerStrings(Tail(path))
                 req == [SeekerPublicKey |-> KeyString(PublicKey(seekerPrivKey)),
                         Hops |-> hopIDs]
                 stream == NewStream("conn", wardenPeer)
                 c1 == [c0 EXCEPT !.path = path]
                 c2 == [c1 EXCEPT !.privKey = seekerPrivKey, !.transport = transport]
             IN IF fault = "keygen"
                  THEN /\ conn' = WriteError(c1, HttpInternalServerError, "keygen")
                       /\ streams' = kept
                ELSE IF fault = "newstream"
                  THEN /\ conn' = WriteError([c1 EXCEPT !.privKey = seekerPrivKey],
                                     HttpInternalServerError, "open stream")
                       /\ streams' = kept
                ELSE IF fault = "encode"
                  THEN /\ conn' = WriteError(c2, HttpInternalServerError, "send request")
                       /\ streams' = With(kept, 1, stream)
                ELSE /\ conn' = [c2 EXCEPT !.pc = "await"]
                     /\ streams' = With(kept, 1,
                          [stream EXCEPT !.reqBuf = <<EncodeVPNRequest(req)>>])
  /\ lastDisc' = [lastDisc EXCEPT !.row = 0]
  \* context.WithTimeout(r.Context(), 60*time.Second): a context of its own
  /\ ctxDone' = {}
  /\ UNCHANGED <<addrs, latency, iface, probeLog, dht, osRuns, probes, sel, p2p>>

\* connectHandler from the Decode of the response on: configure the interface
\* and answer the API caller
ConnectHandlerResume(fault) ==
  /\ conn.pc = "await"
  /\ ResponseReadable(streams[1])
  /\ LET stream == streams[1]
         dec == ReadResponse(stream)
         resp == dec.resp
         cfg == ConfigureSeekerInterface(iface, conn.privKey, resp.WardenPublicKey,
                  RemoteMultiaddr(conn.path[1], conn.transport), fault)
         c1 == [conn EXCEPT !.negotiated = TRUE, !.resp = resp.WardenPublicKey,
                            !.osCmds = cfg.cmds]
     IN IF dec.err
          THEN /\ conn' = WriteError(conn, HttpInternalServerError, "get response")
               /\ iface' = iface
        ELSE IF cfg.end = "panic"
          \* the panic unwinds the handler; net/http recovers it and writes nothing
          THEN /\ conn' = [c1 EXCEPT !.pc = "done", !.status = "panic"]
               /\ iface' = cfg.iface
        ELSE IF cfg.end # "ok"
          THEN /\ conn' = WriteError(c1, HttpInternalServerError, "configure interface")
               /\ iface' = cfg.iface
        ELSE /\ conn' = [c1 EXCEPT !.pc = "done", !.code = HttpOK,
                           !.status = "success", !.msg = "configured",
                           !.out = [WardenPeerID |-> PeerString(conn.path[1]),
                                    SeekerPublicKey |->
                                      KeyString(PublicKey(conn.privKey)),
                                    WardenPublicKey |-> resp.WardenPublicKey,
                                    Path |-> PeerStrings(conn.path)]]
             /\ iface' = cfg.iface
  /\ lastDisc' = [lastDisc EXCEPT !.row = 0]
  /\ UNCHANGED <<addrs, latency, streams, probeLog, dht, ctxDone, osRuns, probes, sel, p2p>>

\* the latest disconnect request.  row: how many disconnect requests have come in
\* a row, no connect request running between them (2: two or more)
NoDisc ==
  [row |-> 0, existed |-> FALSE, code |-> 0, status |-> "none", after |-> NoIface]

\* A handler that reports the failure of "ip link del" to the caller
DisconnectResponseStrict(delErr) ==
  IF delErr THEN [code |-> HttpInternalServerError, status |-> "error"]
  ELSE [code |-> HttpOK, status |-> "success"]

\* what disconnectHandler answers: the error of "ip link del" is only logged
DisconnectResponse(delErr) == [code |-> HttpOK, status |-> "success"]

\* disconnectHandler
DisconnectHandler ==
  /\ LET del == IpLinkDel(iface)
         r == DisconnectResponse(del.err)
     IN /\ iface' = del.iface
        /\ lastDisc' = [row |-> IF lastDisc.row = 0 THEN 1 ELSE 2,
                        existed |-> iface.exists, code |-> r.code,
                        status |-> r.status, after |-> del.iface]
  /\ UNCHANGED <<addrs, latency, conn, streams, probeLog, dht, ctxDone, osRuns,
                 probes, sel, p2p>>

\* ================================================ path selection, read by read

\* the probe writes that are followed while one selection runs
MaxOverwrites == 2

\* connectHandler takes the slice of h.Peerstore().Peers() and enters the filter loop
SelectStart(hopsIn) ==
  /\ sel.pc \in {"idle", "done"}
  /\ sel' = [NoSel EXCEPT !.pc = "filter", !.hops = CoerceHops(hopsIn),
                          !.todo = PeerstorePeers, !.seen = {latency}]
  /\ UNCHANGED <<addrs, latency, conn, streams, iface, lastDisc, probeLog, dht,
                 ctxDone, osRuns, probes, p2p>>

\* one turn of the filter loop: a Get of the latency of p, as it is at this moment
SelectFilter(p) ==
  /\ sel.pc = "filter"
  /\ p \in sel.todo
  /\ sel' = [sel EXCEPT !.todo = @ \ {p},
                        !.avail = IF p \in AvailablePeers(latency)
                                  THEN @ \cup {p} ELSE @]
  /\ UNCHANGED <<addrs, latency, conn, streams, iface, lastDisc, probeLog, dht,
                 ctxDone, osRuns, probes, p2p>>

\* the loop is over: "if len(availablePeers) < connectReq.Hops" answers 503
SelectCount ==
  /\ sel.pc = "filter"
  /\ sel.todo = {}
  /\ sel' = IF Cardinality(sel.avail) < sel.hops
            THEN [sel EXCEPT !.pc = "done", !.code = HttpServiceUnavailable]
            ELSE [sel EXCEPT !.pc = "sort"]
  /\ UNCHANGED <<addrs, latency, conn, streams, iface, lastDisc, probeLog, dht,
                 ctxDone, osRuns, probes, p2p>>

\* sort.Slice, whose less function reads the latencies anew, and the cut to the
\* path.  (The sort runs in one step here: the registry does not move under it.)
SelectSort(sorted) ==
  /\ sel.pc = "sort"
  /\ sorted \in SortSlice(sel.avail, latency)
  /\ sel' = [sel EXCEPT !.pc = "done", !.path = SubSeq(sorted, 1, sel.hops),
                        !.at = latency]
  /\ UNCHANGED <<addrs, latency, conn, streams, iface, lastDisc, probeLog, dht,
                 ctxDone, osRuns, probes, p2p>>

\* a probe goroutine stores its value while the selection runs
SelectOverwritten(p, outcome, elapsed) ==
  /\ sel.pc \in {"filter", "sort"}
  /\ Cardinality(sel.seen) <= MaxOverwrites
  /\ MeasureLatency(p, outcome, elapsed)
  /\ sel' = [sel EXCEPT !.seen = @ \cup {latency'}]
  /\ UNCHANGED <<addrs, conn, streams, iface, lastDisc, probeLog, dht, ctxDone,
                 osRuns, probes, p2p>>

\* ================================================= API requests side by side

\* net/http serves every request in a goroutine of its own and the handlers take
\* no lock: the OS commands of two requests run in any order.  A run is one
\* request from its first OS command on; each command is one step.
RunIds == 1..MaxRuns

\* the entry peer of a path over the probed registry: the peer of least latency
EntryPeer == 1

\* connectHandler of request r has negotiated (its own key pair, the exit key)
\* and calls configureSeekerInterface
ConfigureCalled(r, fault) ==
  /\ r \notin DOMAIN osRuns
  /\ osRuns' = With(osRuns, r,
       [kind |-> "connect", pc |-> "del", privKey |-> 2 * r - 1,
        wardenPubKeyStr |-> KeyString(PublicKey(2 * r)), fault |-> fault,
        end |-> "running", cmds |-> 0])
  /\ UNCHANGED <<addrs, latency, conn, streams, iface, lastDisc, probeLog, dht, ctxDone,
                 probes, sel, p2p>>

\* request r is a POST /api/disconnect
DisconnectCalled(r) ==
  /\ r \notin DOMAIN osRuns
  /\ osRuns' = With(osRuns, r,
       [kind |-> "disconnect", pc |-> "del", privKey |-> 0,
        wardenPubKeyStr |-> [b64 |-> 0], fault |-> "none",
        end |-> "running", cmds |-> 0])
  /\ UNCHANGED <<addrs, latency, conn, streams, iface, lastDisc, probeLog, dht, ctxDone,
                 probes, sel, p2p>>

\* the run goes on to its next command, or ends
Proceed(run, pc) == [run EXCEPT !.pc = pc, !.cmds = run.cmds + 1]
Ended(run, end) == [run EXCEPT !.pc = "done", !.end = end, !.cmds = run.cmds + 1]

\* exec "ip link del wg0": the first command of both handlers; its error is
\* only logged.  disconnectHandler answers after it
RunIpLinkDel(r) ==
  /\ r \in DOMAIN osRuns
  /\ osRuns[r].pc = "del"
  /\ iface' = IpLinkDel(iface).iface
  /\ osRuns' = With(osRuns, r,
       IF osRuns[r].kind = "disconnect" THEN Ended(osRuns[r], "ok")
       ELSE Proceed(osRuns[r], "add"))
  /\ UNCHANGED <<addrs, latency, conn, streams, lastDisc, probeLog, dht, ctxDone,
                 probes, sel, p2p>>

\* exec "ip link add wg0 type wireguard"
RunIpLinkAdd(r) ==
  /\ r \in DOMAIN osRuns
  /\ osRuns[r].pc = "add"
  /\ LET added == IpLinkAdd(iface, osRuns[r].fault)
     IN /\ iface' = added.iface
        /\ osRuns' = With(osRuns, r,
             IF added.err THEN Ended(osRuns[r], "addErr")
             ELSE Proceed(osRuns[r], "configure"))
  /\ UNCHANGED <<addrs, latency, conn, streams, lastDisc, probeLog, dht, ctxDone,
                 probes, sel, p2p>>

\* wgctrl.New, ParseKey, the endpoint address and wgClient.ConfigureDevice,
\* which fails when there is no device wg0
RunConfigureDevice(r) ==
  /\ r \in DOMAIN osRuns
  /\ osRuns[r].pc = "configure"
  /\ LET run == osRuns[r]
         wardenPubKey == ParseKey(run.wardenPubKeyStr)
         remoteAddr == ToNetAddr(SplitQuicV1(RemoteMultiaddr(EntryPeer, "quic")))
         peer == [PublicKey |-> wardenPubKey.key, AllowedIPs |-> AllIPv4,
                  Endpoint |-> [net |-> remoteAddr.net, host |-> remoteAddr.host]]
     IN IF run.fault = "wgctrl"
          THEN /\ osRuns' = With(osRuns, r, [Ended(run, "wgctrlErr") EXCEPT !.cmds = run.cmds])
               /\ iface' = iface
        ELSE IF run.fault = "configure" \/ ~iface.exists
          THEN /\ osRuns' = With(osRuns, r, Ended(run, "configureErr"))
               /\ iface' = iface
        ELSE /\ osRuns' = With(osRuns, r, Proceed(run, "up"))
             /\ iface' = [iface EXCEPT !.privKey = run.privKey, !.peers = {peer}]
  /\ UNCHANGED <<addrs, latency, conn, streams, lastDisc, probeLog, dht, ctxDone,
                 probes, sel, p2p>>

\* exec "ip link set up wg0"
RunIpLinkSetUp(r) ==
  /\ r \in DOMAIN osRuns
  /\ osRuns[r].pc = "up"
  /\ IF osRuns[r].fault = "up" \/ ~iface.exists
       THEN /\ osRuns' = With(osRuns, r, Ended(osRuns[r], "upErr"))
            /\ iface' = iface
       ELSE /\ osRuns' = With(osRuns, r, Proceed(osRuns[r], "dns"))
            /\ iface' = [iface EXCEPT !.up = TRUE]
  /\ UNCHANGED <<addrs, latency, conn, streams, lastDisc, probeLog, dht, ctxDone,
                 probes, sel, p2p>>

\* exec "resolvectl dns wg0 ..." and, when that worked, "resolvectl domain wg0 ~.";
\* an error of either is only logged
RunResolvectlDns(r) ==
  /\ r \in DOMAIN osRuns
  /\ osRuns[r].pc = "dns"
  /\ IF osRuns[r].fault = "dns" \/ ~iface.exists
       THEN /\ osRuns' = With(osRuns, r, Ended(osRuns[r], "ok"))
            /\ iface' = iface
       ELSE /\ osRuns' = With(osRuns, r, Proceed(osRuns[r], "domain"))
            /\ iface' = [iface EXCEPT !.dns = "servers"]
  /\ UNCHANGED <<addrs, latency, conn, streams, lastDisc, probeLog, dht, ctxDone,
                 probes, sel, p2p>>

RunResolvectlDomain(r) ==
  /\ r \in DOMAIN osRuns
  /\ osRuns[r].pc = "domain"
  /\ osRuns' = With(osRuns, r, Ended(osRuns[r], "ok"))
  /\ iface' = IF osRuns[r].fault = "domain" \/ ~iface.exists THEN iface
              ELSE [iface EXCEPT !.dns = "routed"]
  /\ UNCHANGED <<addrs, latency, conn, streams, lastDisc, probeLog, dht, ctxDone,
                 probes, sel, p2p>>

\* ==================================================================== P2PNode

\* the hosts libp2p.New makes that are told apart
MaxHosts == 2

Obj(kind, g) == [kind |-> kind, made |-> g]

StartOutcomes == {"ok", "hostErr", "mdnsErr", "dhtErr", "bootstrapErr"}

\* the objects of a Start call that are open when setupDiscovery has returned and,
\* on its error, Start has closed the host
LeftOpen(outcome, g) ==
  IF outcome = "ok" THEN {Obj("host", g), Obj("mdns", g), Obj("dht", g)}
  ELSE IF outcome = "dhtErr" THEN {Obj("mdns", g)}
  ELSE IF outcome = "bootstrapErr" THEN {Obj("mdns", g), Obj("dht", g)}
  ELSE {}

\* P2PNode.Start up to the end of setupDiscovery.  On an error it returns here; with
\* no error the goroutine of the loop has been started and Start, still holding
\* n.mu, has yet to set IsRunning
P2PNodeStart(outcome) ==
  /\ ~p2p.locked
  /\ p2p.IsRunning \/ p2p.made < MaxHosts
  /\ LET g == p2p.made + 1
         called == [op |-> "Start", made |-> 0, noop |-> FALSE, ret |-> "err"]
     IN p2p' =
          IF p2p.IsRunning
            THEN [p2p EXCEPT !.last = [called EXCEPT !.ret = "nil", !.noop = TRUE]]
          ELSE IF outcome = "hostErr"
            THEN [p2p EXCEPT !.last = called]
          ELSE IF outcome # "ok"
            THEN [p2p EXCEPT
                    !.made = g, !.host = g,
                    !.mdns = IF outcome = "mdnsErr" THEN @ ELSE g,
                    !.dht = IF outcome = "bootstrapErr" THEN g ELSE @,
                    !.open = @ \cup LeftOpen(outcome, g),
                    !.last = [called EXCEPT !.made = g]]
          ELSE [p2p EXCEPT
                  !.made = g, !.host = g, !.mdns = g, !.dht = g,
                  !.open = @ \cup LeftOpen(outcome, g),
                  !.loops = [k \in DOMAIN @ \cup {g} |->
                               IF k = g THEN [pc |-> "check", host |-> 0] ELSE @[k]],
                  !.locked = TRUE]
  /\ UNCHANGED <<addrs, latency, conn, streams, iface, lastDisc, probeLog, dht,
                 ctxDone, osRuns, probes, sel>>

\* "n.IsRunning = true; return nil", and the deferred n.mu.Unlock()
P2PNodeStartReturns ==
  /\ p2p.locked
  /\ p2p' = [p2p EXCEPT !.IsRunning = TRUE, !.locked = FALSE,
                        !.ok = p2p.made,
                        !.last = [op |-> "Start", made |-> p2p.made,
                                  noop |-> FALSE, ret |-> "nil"]]
  /\ UNCHANGED <<addrs, latency, conn, streams, iface, lastDisc, probeLog, dht,
                 ctxDone, osRuns, probes, sel>>

CloseOutcomes == {"ok", "err"}

\* IsRunning after Stop has closed mdns and dht: on an error of host.Close() Stop
\* returns before "n.IsRunning = false"
StoppedRunning(closed) == closed = "err"

\* P2PNode.Stop
P2PNodeStop(closed) ==
  /\ ~p2p.locked
  /\ LET called == [op |-> "Stop", made |-> 0, noop |-> FALSE, ret |-> "nil"]
         gone == {Obj("mdns", p2p.mdns), Obj("dht", p2p.dht)}
                   \cup IF closed = "ok" THEN {Obj("host", p2p.host)} ELSE {}
     IN p2p' =
          IF ~p2p.IsRunning
            THEN [p2p EXCEPT !.last = [called EXCEPT !.noop = TRUE]]
          ELSE [p2p EXCEPT
                  !.open = @ \ gone,
                  !.IsRunning = StoppedRunning(closed),
                  !.last = [called EXCEPT
                              !.ret = IF closed = "err" THEN "err" ELSE "nil"]]
  /\ UNCHANGED <<addrs, latency, conn, streams, iface, lastDisc, probeLog, dht,
                 ctxDone, osRuns, probes, sel>>

LoopAt(g, pc) == g \in DOMAIN p2p.loops /\ p2p.loops[g].pc = pc
LoopTo(g, pc) == [p2p EXCEPT !.loops[g].pc = pc]

\* the top of the loop: "if !n.IsRunning { return }", a read that takes no lock
DiscoveryLoopCheck(g) ==
  /\ LoopAt(g, "check")
  /\ p2p' = LoopTo(g, IF ~p2p.IsRunning THEN "exited" ELSE "query")
  /\ UNCHANGED <<addrs, latency, conn, streams, iface, lastDisc, probeLog, dht,
                 ctxDone, osRuns, probes, sel>>

\* FindPeers and the range over its result, which goes through n.host as it is
\* now; then, as after an error of FindPeers, the loop sleeps
DiscoveryLoopQuery(g) ==
  /\ LoopAt(g, "query")
  /\ p2p' = [p2p EXCEPT !.loops[g] = [pc |-> "sleep", host |-> p2p.host]]
  /\ UNCHANGED <<addrs, latency, conn, streams, iface, lastDisc, probeLog, dht,
                 ctxDone, osRuns, probes, sel>>

\* time.Sleep(1 * time.Minute) is over
DiscoveryLoopWakes(g) ==
  /\ LoopAt(g, "sleep")
  /\ p2p' = LoopTo(g, "check")
  /\ UNCHANGED <<addrs, latency, conn, streams, iface, lastDisc, probeLog, dht,
                 ctxDone, osRuns, probes, sel>>

\* ============================================================= specifications

\* nothing discovered yet, no interface
InitEmpty ==
  /\ addrs = {}
  /\ latency = <<>>
  /\ conn = ConnIdle
  /\ streams = <<>>
  /\ iface = NoIface
  /\ lastDisc = NoDisc
  /\ probeLog = NoProbe
  /\ dht = NoDht
  /\ ctxDone = {}
  /\ osRuns = <<>>
  /\ probes = NoProbes
  /\ sel = NoSel
  /\ p2p = NoNode

\* discovery and the prober, each probe run kept in probeLog
NextProbe ==
  \/ \E pi \in Peers \cup {Self} : HandlePeerFound(pi)
  \/ \E pi \in Peers \cup {Self} : DhtPeerFound(pi)
  \/ \E p \in Peers, o \in ProbeOutcomes, e \in Elapsed : MeasureLatencyLogged(p, o, e)

SpecProbe == InitEmpty /\ [][NextProbe]_vars

\* discovery as StartNode runs it: mDNS callbacks, the DHT loop and the probes
\* they start
DhtLoop ==
  \/ \E o \in FindOutcomes : DhtFindPeers(o)
  \/ DhtChanClosed
  \/ DhtSleepDone

NextDiscovery ==
  \/ \E b \in BootOutcomes : SetupDiscovery(b)
  \/ DhtLoop
  \/ \E pi \in Peers \cup {Self} : DhtRangeRecv(pi)
  \/ \E pi \in Peers \cup {Self} : HandlePeerFound(pi)
  \/ \E p \in Peers, o \in ProbeOutcomes, e \in Elapsed : MeasureLatencyStep(p, o, e)

\* the goroutine of the loop is scheduled whenever it can run, and a query ends
SpecDiscovery == InitEmpty /\ [][NextDiscovery]_vars /\ WF_vars(DhtLoop)

\* discovery with its goroutines: the DHT loop finds every peer in every cycle,
\* mDNS finds peers now and then, each started probe runs on its own
DhtLoopAll ==
  \/ DhtQueryAll
  \/ \E pi \in Peers \cup {Self} : DhtDeliver(pi)
  \/ DhtDrained
  \/ DhtSleepDone

\* the round trip of a probe on this network, in milliseconds
RoundTrip == {15}

ProbeEnds(p) == \E o \in ProbeOutcomes, e \in RoundTrip : ProbeReturns(p, o, e)

NextSpawn ==
  \/ \E b \in BootOutcomes : SetupDiscovery(b)
  \/ DhtLoopAll
  \/ \E pi \in Peers \cup {Self} : HandlePeerFoundGo(pi)
  \/ \E p \in Peers : ProbeEnds(p)
  \/ \E p \in Peers : ProbeStalls(p)

\* every goroutine is scheduled whenever it can run; a stream call that the
\* network answers returns
FairSpawn ==
  /\ WF_vars(DhtLoopAll)
  /\ \A p \in Peers : WF_vars(ProbeEnds(p))

SpecSpawn == InitEmpty /\ [][NextSpawn]_vars /\ FairSpawn

\* the prober against peers that run pingHandler
NextPing ==
  \/ \E pi \in Peers \cup {Self} : HandlePeerFound(pi)
  \/ \E p \in Peers, r \in Reach, e \in Elapsed : PingProbe(p, r, e)

SpecPing == InitEmpty /\ [][NextPing]_vars

\* the interface a finished session has left: what configureSeekerInterface makes
\* of keys 1 and 2 and a QUIC connection to peer 1
SessionInterface ==
  ConfigureSeekerInterface(NoIface, 1, KeyString(PublicKey(2)),
                           RemoteMultiaddr(1, "quic"), "none").iface

\* path selection: the registry moves under discovery and probes; connect requests
\* come at any time, with or without an interface left by an earlier session
InitSelect ==
  /\ addrs = {}
  /\ latency = <<>>
  /\ conn = ConnIdle
  /\ streams = <<>>
  /\ iface \in {NoIface, SessionInterface}
  /\ lastDisc = NoDisc
  /\ probeLog = NoProbe
  /\ dht = NoDht
  /\ ctxDone = {}
  /\ osRuns = <<>>
  /\ probes = NoProbes
  /\ sel = NoSel
  /\ p2p = NoNode

NextSelect ==
  \/ \E pi \in Peers \cup {Self} : HandlePeerFound(pi)
  \/ \E pi \in Peers \cup {Self} : DhtPeerFound(pi)
  \/ \E p \in Peers, o \in ProbeOutcomes, e \in Elapsed : MeasureLatencyStep(p, o, e)
  \/ \E h \in HopInputs, f \in ConnectFaults, t \in Transports :
       \E sorted \in SortSlice(AvailablePeers(latency), latency) :
         ConnectHandler(h, sorted, f, t)

SpecSelect == InitSelect /\ [][NextSelect]_vars

\* the relay handlers under whatever arrives on a negotiation stream
NextRelay ==
  \/ \E dst \in Peers, b \in ExtRequests : ExternalStream(dst, b)
  \/ \E id \in ChainIds, f \in RelayFaults : StreamHandler(id, f)
  \/ \E id \in ChainIds, f \in RelayFaults : StreamHandlerForwardBack(id, f)
  \/ \E id \in ChainIds : ConnectionLost(id)

SpecRelay == InitEmpty /\ [][NextRelay]_vars

\* negotiation and interface: every peer has been discovered and probed, peer p
\* at 5, 15, 25, ... ms
ProbedLatency == [p \in Peers |-> 10 * p - 5]

Init ==
  /\ addrs = Peers
  /\ latency = ProbedLatency
  /\ conn = ConnIdle
  /\ streams = <<>>
  /\ iface = NoIface
  /\ lastDisc = NoDisc
  /\ probeLog = NoProbe
  /\ dht = NoDht
  /\ ctxDone = {}
  /\ osRuns = <<>>
  /\ probes = NoProbes
  /\ sel = NoSel
  /\ p2p = NoNode

Next ==
  \/ \E h \in HopInputs, f \in ConnectFaults, t \in Transports :
       \E sorted \in SortSlice(AvailablePeers(latency), latency) :
         ConnectHandler(h, sorted, f, t)
  \/ \E f \in ConfigFaults : ConnectHandlerResume(f)
  \/ \E id \in ChainIds, f \in RelayFaults : StreamHandler(id, f)
  \/ \E id \in ChainIds, f \in RelayFaults : StreamHandlerForwardBack(id, f)
  \/ \E id \in ChainIds : ConnectionLost(id)
  \/ DisconnectHandler

Spec == Init /\ [][Next]_vars

\* negotiation against peers that may stall, with the deadlines of the contexts.
\* Every handler of this program runs whenever it can, and every timer fires.
NextDeadline ==
  \/ \E h \in HopInputs, f \in ConnectFaults, t \in Transports :
       \E sorted \in SortSlice(AvailablePeers(latency), latency) :
         ConnectHandler(h, sorted, f, t)
  \/ \E f \in ConfigFaults : ConnectHandlerResume(f)
  \/ \E id \in ChainIds, f \in RelayFaults : StreamHandler(id, f)
  \/ \E id \in ChainIds, f \in RelayFaults : StreamHandlerForwardBack(id, f)
  \/ \E id \in ChainIds : PeerStalls(id)
  \/ \E o \in CtxOwners : ContextDeadline(o)

FairDeadline ==
  /\ WF_vars(\E f \in ConfigFaults : ConnectHandlerResume(f))
  /\ \A id \in ChainIds : WF_vars(\E f \in RelayFaults : StreamHandler(id, f))
  /\ \A id \in ChainIds :
       WF_vars(\E f \in RelayFaults : StreamHandlerForwardBack(id, f))
  /\ \A o \in CtxOwners : WF_vars(ContextDeadline(o))

SpecDeadline == Init /\ [][NextDeadline]_vars /\ FairDeadline

\* connect and disconnect requests in flight together, over the interface an
\* earlier session has left
InitConcurrent ==
  /\ addrs = Peers
  /\ latency = ProbedLatency
  /\ conn = ConnIdle
  /\ streams = <<>>
  /\ iface = SessionInterface
  /\ lastDisc = NoDisc
  /\ probeLog = NoProbe
  /\ dht = NoDht
  /\ ctxDone = {}
  /\ osRuns = <<>>
  /\ probes = NoProbes
  /\ sel = NoSel
  /\ p2p = NoNode

NextConcurrent ==
  \/ \E r \in RunIds, f \in ConfigFaults : ConfigureCalled(r, f)
  \/ \E r \in RunIds : DisconnectCalled(r)
  \/ \E r \in RunIds : RunIpLinkDel(r)
  \/ \E r \in RunIds : RunIpLinkAdd(r)
  \/ \E r \in RunIds : RunConfigureDevice(r)
  \/ \E r \in RunIds : RunIpLinkSetUp(r)
  \/ \E r \in RunIds : RunResolvectlDns(r)
  \/ \E r \in RunIds : RunResolvectlDomain(r)

SpecConcurrent == InitConcurrent /\ [][NextConcurrent]_vars

\* path selection over registries in which peers share a latency: every peer
\* has been probed at one of two latencies; connect requests come one after
\* the other and the registry stays as it is
TieLatencies == {5, 15}

InitTies ==
  /\ addrs = Peers
  /\ latency \in [Peers -> TieLatencies]
  /\ conn = ConnIdle
  /\ streams = <<>>
  /\ iface = NoIface
  /\ lastDisc = NoDisc
  /\ probeLog = NoProbe
  /\ dht = NoDht
  /\ ctxDone = {}
  /\ osRuns = <<>>
  /\ probes = NoProbes
  /\ sel = NoSel
  /\ p2p = NoNode

NextTies ==
  \E h \in HopInputs, f \in ConnectFaults, t \in Transports :
    \E sorted \in SortSlice(AvailablePeers(latency), latency) :
      ConnectHandler(h, sorted, f, t)

SpecTies == InitTies /\ [][NextTies]_vars

\* path selection while the probes go on: every peer has been probed, connect
\* requests come one after the other, each followed read by read
SnapshotLatencies == TieLatencies \cup {UnreachableLatency}

InitSnapshot ==
  /\ addrs = Peers
  /\ latency \in [Peers -> SnapshotLatencies]
  /\ conn = ConnIdle
  /\ streams = <<>>
  /\ iface = NoIface
  /\ lastDisc = NoDisc
  /\ probeLog = NoProbe
  /\ dht = NoDht
  /\ ctxDone = {}
  /\ osRuns = <<>>
  /\ probes = NoProbes
  /\ sel = NoSel
  /\ p2p = NoNode

NextSnapshot ==
  \/ \E h \in HopInputs : SelectStart(h)
  \/ \E p \in Peers \cup {Self} : SelectFilter(p)
  \/ SelectCount
  \/ \E sorted \in SortSlice(sel.avail, latency) : SelectSort(sorted)
  \/ \E p \in Peers, o \in ProbeOutcomes, e \in TieLatencies :
       SelectOverwritten(p, o, e)

SpecSnapshot == InitSnapshot /\ [][NextSnapshot]_vars

\* the life cycle of a P2PNode: Start and Stop calls in any order and with any
\* outcome, and the discovery goroutines they leave
HostIds == 1..MaxHosts

NextNode ==
  \/ \E o \in StartOutcomes : P2PNodeStart(o)
  \/ P2PNodeStartReturns
  \/ \E c \in CloseOutcomes : P2PNodeStop(c)
  \/ \E g \in HostIds : DiscoveryLoopCheck(g)
  \/ \E g \in HostIds : DiscoveryLoopQuery(g)
  \/ \E g \in HostIds : DiscoveryLoopWakes(g)

SpecNode == InitEmpty /\ [][NextNode]_vars

\* ===================================================================== claims

\* the peers other than the host with a recorded latency below the sentinel
ReachablePeers ==
  {p \in Peers : p \in DOMAIN latency /\ latency[p] < UnreachableLatency}

\* a step of connectHandler from its start: a request arrives and the handler
\* runs until it returns or blocks
ConnectStarts ==
  /\ conn.pc \in {"idle", "done"}
  /\ conn'.pc \in {"await", "done"}
  /\ <<conn, streams>>' # <<conn, streams>>

\* C1: a connect request for k hops (after coercion) that finds fewer than k
\* peers with a latency below the sentinel is answered 503 "error", opens no
\* negotiation stream, runs no OS command and leaves the interface as it was.
C1_InsufficientPeers ==
  [][(ConnectStarts /\ Cardinality(ReachablePeers) < conn'.hops)
       => /\ conn'.pc = "done"
          /\ conn'.code = HttpServiceUnavailable
          /\ conn'.status = "error"
          /\ conn'.msg = "not enough peers"
          /\ DOMAIN streams' = {}
          /\ conn'.osCmds = 0
          /\ iface' = iface]_vars

C1_Witness ==
  /\ conn.pc = "done"
  /\ conn.code = HttpServiceUnavailable
  /\ conn.hops = 2
  /\ Cardinality(ReachablePeers) = 1
  /\ \E p \in Peers : p \in DOMAIN latency /\ latency[p] = UnreachableLatency
  /\ iface.exists

\* C2: no peer whose recorded latency is the sentinel is in the path a connect
\* request selects, whatever discovery, probes and connects came before.
C2_SentinelNeverSelected ==
  [][ConnectStarts
       => \A i \in 1..Len(conn'.path) :
            /\ conn'.path[i] \in DOMAIN latency
            /\ latency[conn'.path[i]] # UnreachableLatency]_vars

C2_Witness ==
  /\ conn.pc = "await"
  /\ Len(conn.path) = 2
  /\ \E p \in Peers :
       /\ p \in DOMAIN latency
       /\ latency[p] = UnreachableLatency
       /\ \A i \in 1..Len(conn.path) : conn.path[i] # p

\* C3: a selected path has k distinct reachable peers, never the host, in
\* ascending order of latency; no reachable peer left out is strictly faster
\* than one in the path; the negotiation stream goes to path[0] and the request
\* written on it carries the ids of path[1:], in order.
C3_PathSortedAndSent ==
  [][(ConnectStarts /\ conn'.code # HttpServiceUnavailable)
       => LET path == conn'.path
              k == conn'.hops
          IN /\ Len(path) = k
             /\ \A i \in 1..k : path[i] \in ReachablePeers
             /\ \A i, j \in 1..k : i # j => path[i] # path[j]
             /\ \A i, j \in 1..k : i < j => latency[path[i]] <= latency[path[j]]
             /\ \A q \in ReachablePeers :
                  (\A i \in 1..k : path[i] # q)
                    => \A i \in 1..k : ~(latency[q] < latency[path[i]])
             /\ \A s \in DOMAIN streams' :
                  /\ s = 1
                  /\ streams'[s].dst = path[1]
                  /\ Len(streams'[s].reqBuf) > 0 =>
                       /\ streams'[s].reqBuf[1].wellformed
                       /\ ("hops" \in DOMAIN streams'[s].reqBuf[1].obj) = (k > 1)
                       /\ LET sent == DecodeVPNRequest(streams'[s].reqBuf[1]).req.Hops
                          IN /\ Len(sent) = k - 1
                             /\ \A i \in 1..(k - 1) : sent[i] = [b58 |-> path[i + 1]]
             /\ conn'.pc = "await" =>
                  1 \in DOMAIN streams' /\ Len(streams'[1].reqBuf) = 1]_vars

C3_Witness ==
  /\ conn.pc = "await"
  /\ conn.hops = 2
  /\ Cardinality(ReachablePeers) = 3
  /\ \E p, q \in ReachablePeers : p # q /\ latency[p] = latency[q]
  /\ \A i \in 1..2 : conn.path[i] \in ReachablePeers
  /\ \E q \in ReachablePeers : latency[q] > latency[conn.path[2]]
  /\ Len(streams[1].reqBuf) = 1

\* C4: when a negotiation over a path of k peers comes back answered, exactly k
\* relay handlers have run, the i-th at path peer i with a hop list of length
\* k - i (empty at the last peer and only there), and no other peer has
\* received a stream.
C4_HopsShrinkByOne ==
  conn.negotiated =>
    LET k == Len(conn.path)
    IN /\ DOMAIN streams = 1..k
       /\ \A i \in 1..k :
            /\ streams[i].dst = conn.path[i]
            /\ streams[i].hpc = "done"
            /\ Len(streams[i].hops) = k - i
            /\ (Len(streams[i].hops) = 0) = (i = k)
            /\ streams[i].down = (IF i < k THEN i + 1 ELSE 0)

C4_Witness ==
  /\ conn.negotiated
  /\ Len(conn.path) = 3
  /\ DOMAIN streams = 1..3
  /\ Len(streams[1].hops) = 2

\* C5: in an answered negotiation exactly one key was generated, by the handler
\* that received the empty hop list, and the key the orchestrator decoded, and
\* reports on success, is the public key of that one.
C5_ExitKeyRoundTrip ==
  conn.negotiated =>
    LET gens == {s \in DOMAIN streams : streams[s].genKey # 0}
    IN /\ Cardinality(gens) = 1
       /\ \A s \in gens :
            /\ Len(streams[s].hops) = 0
            /\ s = Len(conn.path)
            /\ conn.resp = [b64 |-> streams[s].genKey]
            /\ conn.status = "success" =>
                 conn.out.WardenPublicKey = [b64 |-> streams[s].genKey]

C5_Witness ==
  /\ conn.negotiated
  /\ conn.status = "success"
  /\ Len(conn.path) = 3
  /\ streams[3].genKey # 0
  /\ conn.out.WardenPublicKey = [b64 |-> streams[3].genKey]

\* C6: every disconnect request is answered 200 "success" and leaves no
\* interface, whether or not there was one; a second request in a row finds no
\* interface and leaves the state the first one left.
C6_DisconnectIdempotent ==
  /\ lastDisc.row >= 1 =>
       /\ lastDisc.code = HttpOK
       /\ lastDisc.status = "success"
       /\ lastDisc.after = NoIface
  /\ lastDisc.row = 2 => ~lastDisc.existed

C6_Witness ==
  /\ lastDisc.row = 2
  /\ ~lastDisc.existed
  /\ lastDisc.status = "success"
  /\ iface = NoIface

\* C7: a relay handler that cannot decode the request resets the stream, writes
\* no response, opens no outbound stream and generates no key; no other stream
\* changes in that step, and the handler upstream never answers with a response.
C7_DecodeFailureAborts ==
  /\ [](\A s \in DOMAIN streams :
          streams[s].result = "decodeErr" =>
            /\ streams[s].hpc = "done"
            /\ streams[s].st = "reset"
            /\ Len(streams[s].respBuf) = 0
            /\ streams[s].down = 0
            /\ streams[s].genKey = 0
            /\ (s + 1) \notin DOMAIN streams
            /\ s > 1 => streams[s - 1].result # "ok")
  /\ [][\A s \in DOMAIN streams' :
          (s \in DOMAIN streams /\ streams'[s].result = "decodeErr"
             /\ streams[s].result # "decodeErr")
            => /\ DOMAIN streams' = DOMAIN streams
               /\ \A r \in DOMAIN streams : r # s => streams'[r] = streams[r]]_vars

C7_Witness ==
  /\ 1 \in DOMAIN streams
  /\ streams[1].result = "decodeErr"
  /\ streams[1].reqBuf = <<Garbage>>
  /\ streams[1].st = "reset"

\* C8: a connect request whose stream to the entry peer cannot be opened, whose
\* request cannot be sent or whose response cannot be decoded is answered 500
\* and runs no OS command: the interface, also one an earlier session has
\* configured, stays as it was.
C8_NegotiationFailureTouchesNothing ==
  [][/\ (ConnectStarts /\ conn'.pc = "done")
          => /\ conn'.code \in {HttpInternalServerError, HttpServiceUnavailable}
             /\ conn'.status = "error"
             /\ conn'.osCmds = 0
             /\ iface' = iface
     /\ (conn.pc = "await" /\ conn'.pc = "done" /\ Len(streams[1].respBuf) = 0)
          => /\ conn'.code = HttpInternalServerError
             /\ conn'.status = "error"
             /\ conn'.msg = "get response"
             /\ conn'.osCmds = 0
             /\ iface' = iface]_vars

C8_Witness ==
  /\ conn.pc = "done"
  /\ conn.msg = "get response"
  /\ conn.code = HttpInternalServerError
  /\ iface.exists /\ iface.up
  /\ lastDisc.row = 0

\* C9: after a connect request has failed in the configuration of the
\* interface, no interface exists.
C9_NoDanglingInterface ==
  (conn.pc = "done" /\ conn.msg = "configure interface") => ~iface.exists

\* C10 as claimed: the prober stores the sentinel whenever the open, the write
\* or the read fails, and an elapsed time only when all three succeed.
C10_SentinelOnAnyFailure ==
  probeLog.outcome # "none" =>
    /\ probeLog.outcome \in {"openFail", "writeFail", "readFail"}
         => probeLog.stored = UnreachableLatency
    /\ probeLog.stored # UnreachableLatency => probeLog.outcome = "echoed"

\* C10 as amended: the prober stores the sentinel when the open or the write
\* fails and the elapsed time once both have succeeded, whether or not the read
\* of the echo fails; every run stores exactly one value for the peer it probes.
C10_SentinelOnOpenOrWriteFailure ==
  probeLog.outcome # "none" =>
    /\ probeLog.outcome \in {"openFail", "writeFail"}
         => probeLog.stored = UnreachableLatency
    /\ probeLog.outcome \in {"readFail", "echoed"}
         => probeLog.stored = probeLog.elapsed
    /\ probeLog.puts = 1
    /\ probeLog.peer \in Peers
    /\ probeLog.peer \in DOMAIN latency

C10_Witness ==
  /\ probeLog.outcome = "readFail"
  /\ probeLog.stored = 5
  /\ latency[probeLog.peer] = 5

\* C11: after a query cycle of the DHT loop has failed (FindPeers returned an
\* error), the loop comes to its next query.
C11_FailedCycleRetried ==
  (dht.pc = "range" /\ dht.err) ~> (dht.pc = "query")

\* C12: every connect request that waits for the entry peer's response comes to
\* its end and answers the API caller.
C12_ConnectAlwaysAnswers ==
  (conn.pc = "await") ~> (conn.pc = "done")

\* C18: every relay handler that waits for the next hop's response comes to its
\* end, by replying upstream or by giving up.
C18_RelayAlwaysFinishes ==
  \A id \in ChainIds :
    (id \in DOMAIN streams /\ streams[id].hpc = "await")
      ~> (id \notin DOMAIN streams \/ streams[id].hpc = "done")

\* what a request makes of the interface when it runs alone
AppliedAlone(i, run) ==
  IF run.kind = "disconnect" THEN IpLinkDel(i).iface
  ELSE ConfigureSeekerInterface(i, run.privKey, run.wardenPubKeyStr,
                                RemoteMultiaddr(EntryPeer, "quic"), run.fault).iface

\* the interface after the requests have run one after the other, in an order
SerialOutcomes ==
  {AppliedAlone(AppliedAlone(SessionInterface, osRuns[a]), osRuns[b]) :
     a, b \in {r \in DOMAIN osRuns : TRUE}}

\* a run that has issued a command and has more to come
MidRun(r) == r \in DOMAIN osRuns /\ osRuns[r].cmds > 0 /\ osRuns[r].pc # "done"

\* C13: no request runs an OS command while another request is between two of
\* its own, and once all requests have finished the interface is what running
\* them one after the other, in some order, leaves.
C13_CommandsSerialized ==
  /\ [][\A r \in DOMAIN osRuns :
          osRuns'[r].cmds # osRuns[r].cmds
            => \A q \in DOMAIN osRuns : q # r => ~MidRun(q)]_vars
  /\ []((DOMAIN osRuns = RunIds /\ \A r \in RunIds : osRuns[r].pc = "done")
          => iface \in SerialOutcomes)

\* the step in which connectHandler, back from the Decode of the response, ends
ConnectEnds == conn.pc = "await" /\ conn'.pc = "done"

\* C14: when a connect request is answered "success", the interface exists and
\* is up, holds the private key of the session (the one whose public key the
\* response reports) and exactly one peer: its public key the exit key of the
\* response, its allowed addresses 0.0.0.0/0, its endpoint the UDP address of
\* the entry peer; nothing of an interface that was there before is left.
C14_SuccessMeansConfigured ==
  [][(ConnectEnds /\ conn'.status = "success")
       => /\ conn'.code = HttpOK
          /\ iface'.exists
          /\ iface'.up
          /\ iface'.privKey = conn'.privKey
          /\ conn'.out.SeekerPublicKey = [b64 |-> iface'.privKey]
          /\ Cardinality(iface'.peers) = 1
          /\ \A pk \in iface'.peers :
               /\ pk.PublicKey = [pub |-> conn'.out.WardenPublicKey.b64]
               /\ pk.PublicKey.pub # 0
               /\ pk.AllowedIPs = "0.0.0.0/0"
               /\ pk.Endpoint = [net |-> "udp", host |-> conn'.path[1]]
               /\ conn'.out.WardenPeerID = [b58 |-> pk.Endpoint.host]
          /\ iface.exists =>
               /\ iface'.privKey # iface.privKey
               /\ iface'.peers \cap iface.peers = {}]_vars

\* a second session has replaced the first: its keys are the next ones
C14_Witness ==
  /\ conn.pc = "done"
  /\ conn.status = "success"
  /\ conn.privKey = 3
  /\ iface.exists /\ iface.up /\ iface.privKey = 3
  /\ Len(conn.path) = 2

\* C15: a connect request whose interface was brought up and whose DNS setup
\* then failed (the resolver was not set, or not made the default route) is
\* answered "success", and the interface stays configured and up.
C15_DnsFailureNotFatal ==
  [][(ConnectEnds /\ conn'.osCmds >= 5 /\ iface'.dns # "routed")
       => /\ conn'.status = "success"
          /\ conn'.code = HttpOK
          /\ iface'.exists
          /\ iface'.up
          /\ iface'.privKey = conn'.privKey
          /\ Cardinality(iface'.peers) = 1]_vars

C15_Witness ==
  /\ conn.pc = "done"
  /\ conn.status = "success"
  /\ conn.osCmds = 5
  /\ iface.up
  /\ iface.dns = "none"

\* C16: a connect request that ends without success after its path was
\* selected has been answered once, HTTP 500 with status "error" and a message.
C16_FailureAnswered ==
  (conn.pc = "done" /\ conn.status # "success" /\ conn.code # HttpServiceUnavailable)
    => /\ conn.code = HttpInternalServerError
       /\ conn.status = "error"
       /\ conn.msg # "none"

\* C17: a relay handler that has failed in its forward branch (next hop id,
\* outbound stream, send, or decode of the downstream response) has written
\* nothing on its inbound stream and closed it; the handler upstream of it, once
\* it has read, has failed to decode a response and has answered nothing either.
C17_ForwardFailureSilent ==
  \A s \in DOMAIN streams :
    streams[s].result \in {"badHop", "dialErr", "sendErr", "downErr"}
      => /\ Len(streams[s].respBuf) = 0
         /\ streams[s].st = "closed"
         /\ streams[s].hpc = "done"
         /\ streams[s].genKey = 0
         /\ (s > 1 /\ streams[s - 1].hpc = "done")
              => /\ streams[s - 1].result = "downErr"
                 /\ Len(streams[s - 1].respBuf) = 0

C17_Witness ==
  /\ DOMAIN streams = {1, 2}
  /\ streams[2].result = "dialErr"
  /\ Len(streams[2].respBuf) = 0
  /\ streams[1].result = "downErr"
  /\ Len(streams[1].respBuf) = 0

\* C19: a handler writes its response on the inbound stream only in a step in
\* which it has decoded the response that had arrived from the next hop, or has
\* generated its key (no hops left); so a stream with a response has a
\* downstream with one, and the orchestrator decodes last.
C19_ResponsesFlowUpstream ==
  /\ [](/\ \A s \in DOMAIN streams :
             Len(streams[s].respBuf) > 0
               => IF streams[s].down = 0
                  THEN Len(streams[s].hops) = 0 /\ streams[s].genKey # 0
                  ELSE /\ Len(streams[streams[s].down].respBuf) > 0
                       /\ streams[s].respBuf = streams[streams[s].down].respBuf
         /\ conn.negotiated => Len(streams[1].respBuf) > 0)
  /\ [][\A s \in DOMAIN streams' :
          (s \in DOMAIN streams /\ Len(streams[s].respBuf) = 0
             /\ Len(streams'[s].respBuf) > 0 /\ streams[s].down # 0)
            => /\ Len(streams[streams[s].down].respBuf) > 0
               /\ streams[streams[s].down].hpc = "done"]_vars

C19_Witness ==
  /\ DOMAIN streams = {1, 2, 3}
  /\ Len(streams[3].respBuf) > 0
  /\ Len(streams[2].respBuf) > 0
  /\ Len(streams[1].respBuf) = 0
  /\ streams[1].hpc = "await"

\* C20: of two connect requests for the same number of hops over the same
\* registry, the second selects the path the first has selected.
C20_SamePathEachTime ==
  [][(ConnectStarts /\ Len(conn.path) > 0 /\ Len(conn'.path) > 0
        /\ conn'.hops = conn.hops)
       => conn'.path = conn.path]_vars

\* C22: on every probe stream the responder reads the marker byte and writes exactly
\* one byte back before it closes, so that the read of a probe of a live peer
\* completes with an echoed byte.
C22_ProbeEchoed ==
  (probeLog.puts = 1 /\ "reach" \in DOMAIN probeLog /\ probeLog.reach = "live")
    => /\ probeLog.n = 1
       /\ probeLog.outcome = "echoed"

C28_StreamsReleased ==
  /\ \A id \in DOMAIN streams :
       streams[id].hpc = "done"
         => /\ streams[id].st # "open"
            /\ streams[id].down # 0 => streams[streams[id].down].ost # "open"
  /\ conn.pc = "done"
       => \A id \in DOMAIN streams :
            streams[id].origin = "conn" => streams[id].ost # "open"

\* C30: when a negotiation succeeds, the exit node still holds, after its handler
\* has returned, the private key that matches the public key it sent back,
\* together with the public key of the requester.
C30_ExitKeepsSession ==
  \A id \in DOMAIN streams :
    (streams[id].hpc = "done" /\ streams[id].result = "ok" /\ streams[id].down = 0)
      => LET kept == WardenHolds(streams[id])
             sent == DecodeVPNResponse(streams[id].respBuf[1]).resp
         IN /\ "wardenPrivKey" \in DOMAIN kept
            /\ KeyString(PublicKey(kept.wardenPrivKey)) = sent.WardenPublicKey
            /\ "SeekerPublicKey" \in DOMAIN kept

\* the paths connectHandler selects for hops over the registry lat, and whether
\* it answers 503 over it
PathsOver(lat, hops) ==
  IF Cardinality(AvailablePeers(lat)) < hops THEN {}
  ELSE {SubSeq(s, 1, hops) : s \in SortSlice(AvailablePeers(lat), lat)}

\* C23: path selection acts on one consistent snapshot of the registry even while
\* probes overwrite latencies: the outcome (the path, or the answer that there are
\* not enough peers) is the one of a single registry state that existed during
\* the request, and a probe that writes between the filter and the sort can
\* neither put a peer of sentinel latency into the path nor leave it unsorted.
C23_OneSnapshot ==
  sel.pc = "done"
    => IF sel.code = HttpServiceUnavailable
       THEN \E lat \in sel.seen : PathsOver(lat, sel.hops) = {}
       ELSE /\ \E lat \in sel.seen : sel.path \in PathsOver(lat, sel.hops)
            /\ \A i \in 1..Len(sel.path) : sel.at[sel.path[i]] < UnreachableLatency

\* the discovery goroutines that have not returned
LoopsAlive == {g \in DOMAIN p2p.loops : p2p.loops[g].pc # "exited"}

\* C24: after Start has returned nil, the global discovery loop (the one that this
\* Start began) is running and keeps querying until Stop, under every interleaving
\* of the goroutine with Start: it never exits because it looked at the running
\* flag before Start had set it.
C24_LoopRunsAfterStart ==
  (p2p.last.op = "Start" /\ p2p.last.ret = "nil" /\ ~p2p.last.noop /\ ~p2p.locked)
    => p2p.last.made \in LoopsAlive

\* C25: at most one global discovery loop is alive at any time; the loop of an
\* earlier Start ends after Stop and never survives into a later Start nor works
\* on the host of a later Start.
C25_OneLoopAtMost ==
  /\ Cardinality(LoopsAlive) <= 1
  /\ \A g \in DOMAIN p2p.loops : p2p.loops[g].host \in {0, g}

\* C26: if Start returns an error (host creation, mDNS start, DHT creation or
\* bootstrap), IsRunning is false and no host, mDNS service, DHT or loop that
\* this call created remains open or running.
C26_FailedStartLeavesNothing ==
  (p2p.last.op = "Start" /\ p2p.last.ret = "err")
    => /\ ~p2p.IsRunning
       /\ \A o \in p2p.open : o.made # p2p.last.made
       /\ p2p.last.made \notin LoopsAlive

\* C27: after every sequence of Start and Stop calls, those that return an error
\* included, IsRunning is true exactly when the host, the mDNS service and the DHT
\* of the latest successful Start are all open; a Start while running and a Stop
\* while stopped return nil.
C27_RunningMeansOpen ==
  ~p2p.locked
    => /\ p2p.IsRunning <=>
            /\ p2p.ok # 0
            /\ {Obj("host", p2p.ok), Obj("mdns", p2p.ok), Obj("dht", p2p.ok)}
                 \subseteq p2p.open
       /\ p2p.last.noop => p2p.last.ret = "nil"

====
